---- MODULE Spec2Model ----
(***************************************************************************)
(* String analyzer services of track-backend.                              *)
(*                                                                         *)
(* A JavaScript string is modelled as the sequence of its code points,     *)
(* each code point a one-element TLA+ string ("U+1F600" names the one      *)
(* code point outside the Basic Multilingual Plane that the alphabet       *)
(* holds).  A JavaScript value of unknown type (a JSON body field) is a    *)
(* record tagged with the result of typeof; a JavaScript object with       *)
(* optional properties (req.body, req.query, the filters object) is a      *)
(* function whose DOMAIN holds the names of the properties that are set.   *)
(***************************************************************************)
EXTENDS Integers, Sequences, FiniteSets, TLC

(***************************************************************************)
(* Strings                                                                  *)
(***************************************************************************)
Astral == "U+1F600"

\* Characters of the class \s that the alphabet holds: space and tab.
Whitespace == {" ", "\t"}

Digits == {"0", "1", "2", "3", "4", "5", "6", "7", "8", "9"}

LowerLetters ==
    {"a", "b", "c", "d", "e", "f", "g", "h", "i", "j", "k", "l", "m",
     "n", "o", "p", "q", "r", "s", "t", "u", "v", "w", "x", "y", "z"}

\* The characters the class [a-z0-9] holds.
LowerAlnum == LowerLetters \cup Digits

DigitValue(c) == CASE c = "0" -> 0 [] c = "1" -> 1 [] c = "2" -> 2 [] c = "3" -> 3
                   [] c = "4" -> 4 [] c = "5" -> 5 [] c = "6" -> 6 [] c = "7" -> 7
                   [] c = "8" -> 8 [] c = "9" -> 9

\* String.prototype.toLowerCase, one code point at a time, on the alphabet.
LowerOf(c) == CASE c = "A" -> "a" [] c = "B" -> "b" [] c = "C" -> "c" [] c = "D" -> "d"
                [] c = "E" -> "e" [] c = "F" -> "f" [] c = "G" -> "g" [] c = "H" -> "h"
                [] c = "I" -> "i" [] c = "J" -> "j" [] c = "K" -> "k" [] c = "L" -> "l"
                [] c = "M" -> "m" [] c = "N" -> "n" [] c = "O" -> "o" [] c = "P" -> "p"
                [] c = "Q" -> "q" [] c = "R" -> "r" [] c = "S" -> "s" [] c = "T" -> "t"
                [] c = "U" -> "u" [] c = "V" -> "v" [] c = "W" -> "w" [] c = "X" -> "x"
                [] c = "Y" -> "y" [] c = "Z" -> "z"
                [] OTHER -> c

\* UTF-16 code units of one code point: what String.prototype.length counts.
Utf16Units(c) == IF c = Astral THEN 2 ELSE 1

\* Bytes of the UTF-8 encoding of one code point.
Utf8Of(c) == CASE c = "a" -> <<97>> [] c = "b" -> <<98>> [] c = "c" -> <<99>> [] c = "d" -> <<100>>
               [] c = "e" -> <<101>> [] c = "f" -> <<102>> [] c = "g" -> <<103>> [] c = "h" -> <<104>>
               [] c = "i" -> <<105>> [] c = "j" -> <<106>> [] c = "k" -> <<107>> [] c = "l" -> <<108>>
               [] c = "m" -> <<109>> [] c = "n" -> <<110>> [] c = "o" -> <<111>> [] c = "p" -> <<112>>
               [] c = "q" -> <<113>> [] c = "r" -> <<114>> [] c = "s" -> <<115>> [] c = "t" -> <<116>>
               [] c = "u" -> <<117>> [] c = "v" -> <<118>> [] c = "w" -> <<119>> [] c = "x" -> <<120>>
               [] c = "y" -> <<121>> [] c = "z" -> <<122>> [] c = "A" -> <<65>> [] c = "B" -> <<66>>
               [] c = "C" -> <<67>> [] c = "D" -> <<68>> [] c = "E" -> <<69>> [] c = "F" -> <<70>>
               [] c = "G" -> <<71>> [] c = "H" -> <<72>> [] c = "I" -> <<73>> [] c = "J" -> <<74>>
               [] c = "K" -> <<75>> [] c = "L" -> <<76>> [] c = "M" -> <<77>> [] c = "N" -> <<78>>
               [] c = "O" -> <<79>> [] c = "P" -> <<80>> [] c = "Q" -> <<81>> [] c = "R" -> <<82>>
               [] c = "S" -> <<83>> [] c = "T" -> <<84>> [] c = "U" -> <<85>> [] c = "V" -> <<86>>
               [] c = "W" -> <<87>> [] c = "X" -> <<88>> [] c = "Y" -> <<89>> [] c = "Z" -> <<90>>
               [] c = "0" -> <<48>> [] c = "1" -> <<49>> [] c = "2" -> <<50>> [] c = "3" -> <<51>>
               [] c = "4" -> <<52>> [] c = "5" -> <<53>> [] c = "6" -> <<54>> [] c = "7" -> <<55>>
               [] c = "8" -> <<56>> [] c = "9" -> <<57>> [] c = " " -> <<32>> [] c = "!" -> <<33>>
               [] c = "%" -> <<37>> [] c = "_" -> <<95>> [] c = "," -> <<44>> [] c = ":" -> <<58>>
               [] c = "-" -> <<45>> [] c = "\t" -> <<9>>
               [] c = Astral -> <<240, 159, 152, 128>>

RECURSIVE Utf8(_)
Utf8(s) == IF s = <<>> THEN <<>> ELSE Utf8Of(Head(s)) \o Utf8(Tail(s))

RECURSIVE Utf16Length(_)
Utf16Length(s) == IF s = <<>> THEN 0 ELSE Utf16Units(Head(s)) + Utf16Length(Tail(s))

toLowerCase(s) == [i \in 1..Len(s) |-> LowerOf(s[i])]

Reverse(s) == [i \in 1..Len(s) |-> s[Len(s) + 1 - i]]

RECURSIVE TrimStart(_)
TrimStart(s) == IF s # <<>> /\ Head(s) \in Whitespace THEN TrimStart(Tail(s)) ELSE s

trim(s) == Reverse(TrimStart(Reverse(TrimStart(s))))

\* s.split(/\s+/).length: one more than the number of maximal whitespace runs.
SplitWhitespaceLength(s) ==
    1 + Cardinality({i \in 1..Len(s) :
                        /\ s[i] \in Whitespace
                        /\ (i = 1 \/ s[i - 1] \notin Whitespace)})

\* p occurs in s at position i.
StartsWithAt(s, i, p) ==
    i >= 1 /\ i + Len(p) - 1 <= Len(s) /\ SubSeq(s, i, i + Len(p) - 1) = p

\* String.prototype.includes
includes(s, p) == \E i \in 1..(Len(s) + 1) : StartsWithAt(s, i, p)

\* The digits a string starts with, as parseInt reads them.
RECURSIVE DigitPrefix(_)
DigitPrefix(s) ==
    IF s # <<>> /\ Head(s) \in Digits THEN <<Head(s)>> \o DigitPrefix(Tail(s)) ELSE <<>>

RECURSIVE DecimalValue(_)
DecimalValue(d) ==
    IF d = <<>> THEN 0 ELSE 10 * DecimalValue(SubSeq(d, 1, Len(d) - 1)) + DigitValue(d[Len(d)])

NaN == [nan |-> TRUE]

Num(n) == [nan |-> FALSE, n |-> n]

\* parseInt(string): leading whitespace is skipped, a sign is read, then the
\* longest run of decimal digits; NaN when there is none.
parseInt(s) ==
    LET t == TrimStart(s)
        negative == t # <<>> /\ Head(t) = "-"
        u == IF t # <<>> /\ Head(t) \in {"-", "+"} THEN Tail(t) ELSE t
        d == DigitPrefix(u)
    IN  IF d = <<>> THEN NaN
        ELSE Num(IF negative THEN 0 - DecimalValue(d) ELSE DecimalValue(d))

\* PostgreSQL's LIKE: % matches any run of characters, _ any one character.
RECURSIVE Like(_, _)
Like(s, p) ==
    IF p = <<>> THEN s = <<>>
    ELSE IF Head(p) = "%" THEN Like(s, Tail(p)) \/ (s # <<>> /\ Like(Tail(s), p))
    ELSE IF Head(p) = "_" THEN s # <<>> /\ Like(Tail(s), Tail(p))
    ELSE s # <<>> /\ Head(s) = Head(p) /\ Like(Tail(s), Tail(p))

\* crypto.createHash('sha256').update(value, 'utf8').digest('hex'): the digest
\* is kept as a value that is equal for equal byte sequences and for no others.
Sha256Hex(bytes) == [sha256 |-> bytes]

(***************************************************************************)
(* stringAnalyzer-Service/utils/stringAnalyzer.js                            *)
(***************************************************************************)
IsString(v) == v.t = "string"

Str(s) == [t |-> "string", s |-> s]

\* A frequency map of the lower-cased value: upper and lower case counted
\* under one key.
CharFreqMapFolded(s) ==
    [c \in {LowerOf(s[i]) : i \in 1..Len(s)} |->
        Cardinality({i \in 1..Len(s) : LowerOf(s[i]) = c})]

\* for (const char of value) char_freq_map[char] = (char_freq_map[char] || 0) + 1
CharFreqMap(s) ==
    [c \in {s[i] : i \in 1..Len(s)} |-> Cardinality({i \in 1..Len(s) : s[i] = c})]

\* value.toLowerCase().replace(/[^a-z0-9]/g, '')
Normalized(s) == SelectSeq(toLowerCase(s), LAMBDA c : c \in LowerAlnum)

\* value.split(/\s+/).length, without trim and without the test for ''.
WordCountSplitOnly(s) == SplitWhitespaceLength(s)

\* value.trim() === '' ? 0 : value.trim().split(/\s+/).length
WordCount(s) == IF trim(s) = <<>> THEN 0 ELSE SplitWhitespaceLength(trim(s))

Throw(message) == [err |-> TRUE, message |-> message]

\* An analysis whose properties depend on the time of the call.
AnalysisClocked(s, t) ==
    [err |-> FALSE,
     id |-> Sha256Hex(Utf8(s)),
     value |-> s,
     properties |->
        [length |-> Utf16Length(s) + t,
         is_palindrome |-> Normalized(s) = Reverse(Normalized(s)),
         unique_characters |-> Cardinality(DOMAIN CharFreqMap(s)),
         word_count |-> WordCount(s),
         sha256_hash |-> Sha256Hex(Utf8(s)),
         character_frequency_map |-> CharFreqMap(s)],
     created_at |-> <<"ISO", t>>]

\* The object analyzeString returns for a string; created_at is the time of
\* the call.
Analysis(s, t) ==
    [err |-> FALSE,
     id |-> Sha256Hex(Utf8(s)),
     value |-> s,
     properties |->
        [length |-> Utf16Length(s),
         is_palindrome |-> Normalized(s) = Reverse(Normalized(s)),
         unique_characters |-> Cardinality(DOMAIN CharFreqMap(s)),
         word_count |-> WordCount(s),
         sha256_hash |-> Sha256Hex(Utf8(s)),
         character_frequency_map |-> CharFreqMap(s)],
     created_at |-> <<"ISO", t>>]

\* analyzeString with the value coerced: (value || '') analysed as a string.
analyzeStringCoercing(value, t) == Analysis(IF IsString(value) THEN value.s ELSE <<>>, t)

\* analyzeString(value): hash.update(value, 'utf8') throws a TypeError
\* (ERR_INVALID_ARG_TYPE) for a value that is no string, before anything
\* else is computed.
analyzeString(value, t) ==
    IF IsString(value) THEN Analysis(value.s, t) ELSE Throw("ERR_INVALID_ARG_TYPE")

(***************************************************************************)
(* Bounds and inputs                                                        *)
(***************************************************************************)
\* Latest reading of the database clock (CURRENT_TIMESTAMP).
MaxClock == 1

Callers == {"c1", "c2"}

\* Values the callers send: empty, whitespace only, two words in mixed case.
StringValues == {<<>>, <<" ">>, <<"A", " ", "a">>}

\* JSON values of every type a body can carry in its "value" field.
NonStringValues ==
    {[t |-> "number", n |-> 0], [t |-> "number", n |-> 5],
     [t |-> "boolean", b |-> FALSE], [t |-> "boolean", b |-> TRUE],
     [t |-> "object", kind |-> "null"], [t |-> "object", kind |-> "object"],
     [t |-> "object", kind |-> "array"]}

\* req.body: an object with or without the "value" property.
Bodies == {<<>>} \cup {[n \in {"value"} |-> v] : v \in {Str(s) : s \in StringValues} \cup NonStringValues}

(***************************************************************************)
(* stringAnalyzer-Service/db/index.js: the strings table                    *)
(***************************************************************************)
VARIABLES strings, now, pc, req, res

vars == <<strings, now, pc, req, res>>

\* The SELECT with the id compared against the value column.
SelectByValueColumn(table, id) == {r \in table : r.value = id}

\* The SELECT without its WHERE clause.
SelectAll(table, id) == table

\* SELECT * FROM strings WHERE id = $1
SelectById(table, id) == {r \in table : r.id = id}

\* id VARCHAR(64) PRIMARY KEY
PrimaryKeyViolated(table, row) == \E r \in table : r.id = row.id

\* The VALUES list with unique_characters and word_count in each other's place.
InsertRowSwapped(a, t) ==
    [id |-> a.id, value |-> a.value, length |-> a.properties.length,
     is_palindrome |-> a.properties.is_palindrome,
     unique_characters |-> a.properties.word_count,
     word_count |-> a.properties.unique_characters,
     char_freq_map |-> a.properties.character_frequency_map,
     created_at |-> t]

\* INSERT INTO strings (id, value, length, ...) VALUES (...); created_at
\* takes its default, CURRENT_TIMESTAMP.
InsertRow(a, t) ==
    [id |-> a.id, value |-> a.value, length |-> a.properties.length,
     is_palindrome |-> a.properties.is_palindrome,
     unique_characters |-> a.properties.unique_characters,
     word_count |-> a.properties.word_count,
     char_freq_map |-> a.properties.character_frequency_map,
     created_at |-> t]

\* An INSERT into a table that has no primary key.
InsertUnchecked(table, row) == [ok |-> TRUE, table |-> table \cup {row}]

\* INSERT ... ON CONFLICT (id) DO UPDATE: the present row is overwritten.
InsertOrReplace(table, row) ==
    [ok |-> TRUE, table |-> {r \in table : r.id # row.id} \cup {row}]

\* The INSERT statement: refused (error 23505) when the primary key is taken.
Insert(table, row) ==
    IF PrimaryKeyViolated(table, row)
    THEN [ok |-> FALSE, table |-> table]
    ELSE [ok |-> TRUE, table |-> table \cup {row}]

\* A soft delete: the row is counted and stays.
DeleteByIdSoft(table, id) ==
    [table |-> table, rowCount |-> Cardinality({r \in table : r.id = id})]

\* DELETE FROM strings WHERE id = $1
DeleteById(table, id) ==
    [table |-> {r \in table : r.id # id},
     rowCount |-> Cardinality({r \in table : r.id = id})]

\* Date.prototype.toISOString
toISOString(t) == <<"ISO", t>>

formatResponse(row) ==
    [id |-> row.id,
     value |-> row.value,
     properties |->
        [length |-> row.length,
         is_palindrome |-> row.is_palindrome,
         unique_characters |-> row.unique_characters,
         word_count |-> row.word_count,
         sha256_hash |-> row.id,
         character_frequency_map |-> row.char_freq_map],
     created_at |-> toISOString(row.created_at)]

NoRequest == [op |-> "none"]

NoResponse == [status |-> 0]

Error(code) == [status |-> code]

\* 500 'Internal Server Error'; error.message goes to console.error.
InternalServerError(message) == [status |-> 500, logged |-> message]

Init ==
    /\ strings = {}
    /\ now = 0
    /\ pc = [c \in Callers |-> "idle"]
    /\ req = [c \in Callers |-> NoRequest]
    /\ res = [c \in Callers |-> NoResponse]

Finish(c, r, response) ==
    /\ pc' = [pc EXCEPT ![c] = "done"]
    /\ req' = [req EXCEPT ![c] = r]
    /\ res' = [res EXCEPT ![c] = response]

(***************************************************************************)
(* stringAnalyzer-Service/routes: POST /strings                             *)
(***************************************************************************)
\* Validation, analysis and the conflict SELECT.
Post(c) ==
    /\ pc[c] = "idle"
    /\ \E body \in Bodies :
         LET r == [op |-> "POST", body |-> body] IN
         IF "value" \notin DOMAIN body
         THEN Finish(c, r, Error(400))
         ELSE IF ~IsString(body.value)
         THEN Finish(c, r, Error(422))
         ELSE LET analysis == analyzeString(body.value, now) IN
              IF SelectById(strings, analysis.id) # {}
              THEN Finish(c, r, Error(409))
              ELSE /\ pc' = [pc EXCEPT ![c] = "insert"]
                   /\ req' = [req EXCEPT ![c] = r]
                   /\ res' = res
    /\ UNCHANGED <<strings, now>>

\* The INSERT; a refused INSERT throws and the handler answers 500.
PostInsert(c) ==
    /\ pc[c] = "insert"
    /\ LET done == Insert(strings, InsertRow(analyzeString(req[c].body.value, now), now)) IN
       /\ strings' = done.table
       /\ IF done.ok
          THEN /\ pc' = [pc EXCEPT ![c] = "readback"]
               /\ UNCHANGED <<req, res>>
          ELSE Finish(c, req[c], InternalServerError("duplicate key value"))
    /\ UNCHANGED now

\* The read-back SELECT; formatResponse(undefined) throws when no row is left.
PostReadBack(c) ==
    /\ pc[c] = "readback"
    /\ LET rows == SelectById(strings, analyzeString(req[c].body.value, now).id) IN
       IF rows = {}
       THEN Finish(c, req[c], InternalServerError("Cannot read properties of undefined"))
       ELSE \E row \in rows :
              Finish(c, req[c], [status |-> 201, body |-> formatResponse(row)])
    /\ UNCHANGED <<strings, now>>

(***************************************************************************)
(* GET /strings/:stringValue and DELETE /strings/:stringValue               *)
(***************************************************************************)
\* req.params.stringValue is a path segment: a string, never empty.
PathValues == StringValues \ {<<>>}

Get(c) ==
    /\ pc[c] = "idle"
    /\ \E v \in PathValues :
         LET rows == SelectById(strings, analyzeString(Str(v), now).id)
             r == [op |-> "GET", stringValue |-> v] IN
         IF rows = {}
         THEN Finish(c, r, Error(404))
         ELSE \E row \in rows :
                Finish(c, r, [status |-> 200, body |-> formatResponse(row)])
    /\ UNCHANGED <<strings, now>>

Delete(c) ==
    /\ pc[c] = "idle"
    /\ \E v \in PathValues :
         LET result == DeleteById(strings, analyzeString(Str(v), now).id)
             r == [op |-> "DELETE", stringValue |-> v] IN
         /\ strings' = result.table
         /\ IF result.rowCount = 0
            THEN Finish(c, r, Error(404))
            ELSE Finish(c, r, [status |-> 204])
    /\ UNCHANGED now

(***************************************************************************)
(* GET /strings: buildFilterQuery and the structured query                  *)
(***************************************************************************)
Has(o, name) == name \in DOMAIN o

\* A property that is set and truthy; the values of req.query are strings.
Truthy(o, name) == Has(o, name) /\ o[name] # <<>>

\* The WHERE clause and its values: the conditions that were appended.
buildFilterQuery(filters) ==
    LET min == parseInt(filters["min_length"])
        max == parseInt(filters["max_length"])
        wc == parseInt(filters["word_count"])
        char == filters["contains_character"]
    IN  IF Truthy(filters, "min_length") /\ min.nan
        THEN Throw("min_length must be an integer.")
        ELSE IF Truthy(filters, "max_length") /\ max.nan
        THEN Throw("max_length must be an integer.")
        ELSE IF Truthy(filters, "word_count") /\ wc.nan
        THEN Throw("word_count must be an integer.")
        ELSE IF Truthy(filters, "contains_character") /\ Utf16Length(char) # 1
        THEN Throw("contains_character must be a single character string.")
        ELSE [err |-> FALSE,
              where |->
                [n \in {f \in {"is_palindrome"} : Has(filters, f)}
                        \cup {f \in {"min_length", "max_length", "word_count",
                                      "contains_character"} : Truthy(filters, f)} |->
                    CASE n = "is_palindrome" -> filters[n] = <<"t", "r", "u", "e">>
                      [] n = "min_length" -> min.n
                      [] n = "max_length" -> max.n
                      [] n = "word_count" -> wc.n
                      [] n = "contains_character" -> <<"%">> \o char \o <<"%">>]]

\* The rows the WHERE clause selects.
Selected(table, where) ==
    {r \in table :
        /\ Has(where, "is_palindrome") => r.is_palindrome = where["is_palindrome"]
        /\ Has(where, "min_length") => r.length >= where["min_length"]
        /\ Has(where, "max_length") => r.length <= where["max_length"]
        /\ Has(where, "word_count") => r.word_count = where["word_count"]
        /\ Has(where, "contains_character") =>
              Like(toLowerCase(r.value), toLowerCase(where["contains_character"]))}

\* ORDER BY created_at DESC: every order of the rows that is descending.
OrderedByCreatedAtDesc(rows) ==
    {q \in [1..Cardinality(rows) -> rows] :
        /\ \A i, j \in DOMAIN q : i # j => q[i] # q[j]
        /\ \A i, j \in DOMAIN q : i < j => q[i].created_at >= q[j].created_at}

\* req.query of the structured requests the callers send.
QueryRequests ==
    {<<>>,
     [n \in {"is_palindrome"} |-> <<"t", "r", "u", "e">>],
     [n \in {"contains_character"} |-> <<"a">>],
     [n \in {"word_count"} |-> <<"a">>],
     [n \in {"min_length", "max_length"} |->
        IF n = "min_length" THEN <<"1", "0">> ELSE <<"5">>]}

\* router.get('/') for a request whose req.query is one of requests.
QueryOf(c, requests) ==
    /\ pc[c] = "idle"
    /\ \E filters \in requests :
         LET built == buildFilterQuery(filters)
             r == [op |-> "QUERY", query |-> filters] IN
         IF built.err
         THEN Finish(c, r, [status |-> 400, error |-> built.message])
         ELSE \E rows \in OrderedByCreatedAtDesc(Selected(strings, built.where)) :
                Finish(c, r, [status |-> 200,
                              body |-> [data |-> [i \in DOMAIN rows |-> formatResponse(rows[i])],
                                        count |-> Len(rows),
                                        filters_applied |-> filters]])
    /\ UNCHANGED <<strings, now>>

Query(c) == QueryOf(c, QueryRequests)

\* A direct call of the exported analyzeString, with one of values.
AnalyzeOf(c, values) ==
    /\ pc[c] = "idle"
    /\ \E v \in values :
         LET a == analyzeString(v, now)
             r == [op |-> "analyze", value |-> v] IN
         IF a.err
         THEN Finish(c, r, [status |-> 0, thrown |-> a.message])
         ELSE Finish(c, r, [status |-> 0, returned |-> a])
    /\ UNCHANGED <<strings, now>>

Analyze(c) == AnalyzeOf(c, {Str(s) : s \in StringValues} \cup NonStringValues)

\* The response has been sent; the caller may issue its next request.
Respond(c) ==
    /\ pc[c] = "done"
    /\ pc' = [pc EXCEPT ![c] = "idle"]
    /\ req' = [req EXCEPT ![c] = NoRequest]
    /\ res' = [res EXCEPT ![c] = NoResponse]
    /\ UNCHANGED <<strings, now>>

\* Time passes on the database clock.
Tick ==
    /\ now < MaxClock
    /\ now' = now + 1
    /\ UNCHANGED <<strings, pc, req, res>>

Next ==
    \/ \E c \in Callers : Post(c)
    \/ \E c \in Callers : PostInsert(c)
    \/ \E c \in Callers : PostReadBack(c)
    \/ \E c \in Callers : Get(c)
    \/ \E c \in Callers : Delete(c)
    \/ \E c \in Callers : Query(c)
    \/ \E c \in Callers : Analyze(c)
    \/ \E c \in Callers : Respond(c)
    \/ Tick

Spec == Init /\ [][Next]_vars

(***************************************************************************)
(* GET /strings over a store that earlier POSTs have filled                 *)
(***************************************************************************)
\* The values of the stored records, in the order of their creation: the
\* empty string, one word, a two-word palindrome in mixed case, a value
\* that holds the character %.
FilterValues == << <<>>, <<"a", "b">>, <<"A", " ", "a">>, <<"5", "%">> >>

\* The table after POSTs of the values numbered in S, the k-th sent at time k.
FilterTable(S) == {InsertRow(Analysis(FilterValues[k], k), k) : k \in S}

OneFilter(name, v) == [n \in {name} |-> v]

\* Values sent for min_length, max_length and word_count: "0", "2", "2a",
\* "-5", "a" and the empty string.
NumberParams == {<<"0">>, <<"2">>, <<"2", "a">>, <<"-", "5">>, <<"a">>, <<>>}

\* Values sent for contains_character: one letter in either case, the two
\* LIKE wildcards, the empty string and two characters.
CharParams == {<<"a">>, <<"A">>, <<"%">>, <<"_">>, <<>>, <<"a", "b">>}

\* req.query of the requests sent to the filled store.
FilterRequests ==
    {<<>>}
    \cup {OneFilter("is_palindrome", v) : v \in {<<"t", "r", "u", "e">>, <<"f", "a", "l", "s", "e">>}}
    \cup {OneFilter(name, v) : name \in {"min_length", "max_length", "word_count"},
                              v \in NumberParams}
    \cup {OneFilter("contains_character", v) : v \in CharParams}
    \cup {[n \in {"min_length", "word_count"} |->
            IF n = "min_length" THEN <<"2">> ELSE <<"1">>]}

InitFilter ==
    /\ strings \in {FilterTable(S) : S \in SUBSET DOMAIN FilterValues}
    /\ now = Len(FilterValues)
    /\ pc = [c \in Callers |-> "idle"]
    /\ req = [c \in Callers |-> NoRequest]
    /\ res = [c \in Callers |-> NoResponse]

StructuredQuery(c) == QueryOf(c, FilterRequests)

NextFilter ==
    \/ \E c \in Callers : StructuredQuery(c)
    \/ \E c \in Callers : Respond(c)

SpecFilter == InitFilter /\ [][NextFilter]_vars

(***************************************************************************)
(* String-analyzer: StringService (src/app.js), StringModel                 *)
(* (tests/stringService.test.js) and StringController                       *)
(***************************************************************************)
\* The UTF-16 code units of a string: what split('') splits into ("D83D" and
\* "DE00" are the surrogate pair of U+1F600).
RECURSIVE Utf16(_)
Utf16(s) ==
    IF s = <<>> THEN <<>>
    ELSE (IF Head(s) = Astral THEN <<"D83D", "DE00">> ELSE <<Head(s)>>) \o Utf16(Tail(s))

StringService_analyzeString(value) ==
    IF ~IsString(value) THEN Throw("Value must be a string")
    ELSE LET s == value.s IN
         [err |-> FALSE,
          length |-> Utf16Length(s),
          is_palindrome |-> Utf16(toLowerCase(s)) = Reverse(Utf16(toLowerCase(s))),
          unique_characters |-> Cardinality({s[i] : i \in 1..Len(s)}),
          word_count |-> WordCount(s),
          sha256_hash |-> Sha256Hex(Utf8(s)),
          character_frequency_map |-> CharFreqMap(s)]

\* !value
Falsy(o, name) ==
    \/ ~Has(o, name)
    \/ o[name] \in {Str(<<>>), [t |-> "number", n |-> 0], [t |-> "boolean", b |-> FALSE],
                     [t |-> "object", kind |-> "null"]}

\* StringModel.create: one INSERT ... RETURNING *; the duplicate key error
\* 23505 becomes 'String already exists'.
StringModel_create(table, stringData, t) ==
    LET row == [id |-> stringData.id,
                value |-> stringData.value,
                length |-> stringData.properties.length,
                is_palindrome |-> stringData.properties.is_palindrome,
                unique_characters |-> stringData.properties.unique_characters,
                word_count |-> stringData.properties.word_count,
                sha256_hash |-> stringData.properties.sha256_hash,
                character_frequency_map |-> stringData.properties.character_frequency_map,
                created_at |-> t]
    IN  IF PrimaryKeyViolated(table, row)
        THEN [err |-> TRUE, message |-> "String already exists", table |-> table]
        ELSE [err |-> FALSE, row |-> row, table |-> table \cup {row}]

\* The body StringController answers with for a row.
StringController_body(row) ==
    [id |-> row.id,
     value |-> row.value,
     properties |->
        [length |-> row.length,
         is_palindrome |-> row.is_palindrome,
         unique_characters |-> row.unique_characters,
         word_count |-> row.word_count,
         sha256_hash |-> row.sha256_hash,
         character_frequency_map |-> row.character_frequency_map],
     created_at |-> toISOString(row.created_at)]

StringController_createString(c) ==
    /\ pc[c] = "idle"
    /\ \E body \in Bodies :
         LET r == [op |-> "POST", body |-> body] IN
         IF Falsy(body, "value") \/ ~IsString(body.value)
         THEN /\ Finish(c, r, Error(400))
              /\ strings' = strings
         ELSE LET properties == StringService_analyzeString(body.value)
                  created == StringModel_create(strings,
                                [id |-> properties.sha256_hash, value |-> body.value.s,
                                 properties |-> properties], now) IN
              /\ strings' = created.table
              /\ IF created.err
                 THEN Finish(c, r, Error(409))
                 ELSE Finish(c, r, [status |-> 201, body |-> StringController_body(created.row)])
    /\ UNCHANGED now

\* StringModel.findByHash: SELECT * FROM strings WHERE sha256_hash = $1
StringModel_findByHash(table, hash) == {r \in table : r.sha256_hash = hash}

StringController_getString(c) ==
    /\ pc[c] = "idle"
    /\ \E v \in PathValues :
         LET rows == StringModel_findByHash(strings, StringService_analyzeString(Str(v)).sha256_hash)
             r == [op |-> "GET", stringValue |-> v] IN
         IF rows = {}
         THEN Finish(c, r, Error(404))
         ELSE \E row \in rows :
                Finish(c, r, [status |-> 200, body |-> StringController_body(row)])
    /\ UNCHANGED <<strings, now>>

\* StringModel.deleteByHash: DELETE FROM strings WHERE sha256_hash = $1 RETURNING *
StringModel_deleteByHash(table, hash) ==
    [table |-> {r \in table : r.sha256_hash # hash},
     rows |-> {r \in table : r.sha256_hash = hash}]

StringController_deleteString(c) ==
    /\ pc[c] = "idle"
    /\ \E v \in PathValues :
         LET result == StringModel_deleteByHash(strings,
                          StringService_analyzeString(Str(v)).sha256_hash)
             r == [op |-> "DELETE", stringValue |-> v] IN
         /\ strings' = result.table
         /\ IF result.rows = {}
            THEN Finish(c, r, Error(404))
            ELSE Finish(c, r, [status |-> 204])
    /\ UNCHANGED now

NextController ==
    \/ \E c \in Callers : StringController_createString(c)
    \/ \E c \in Callers : StringController_getString(c)
    \/ \E c \in Callers : StringController_deleteString(c)
    \/ \E c \in Callers : Respond(c)
    \/ Tick

SpecController == Init /\ [][NextController]_vars

\* A number in a condition: NaN and 0 are falsy.
TruthyNumber(x) == ~x.nan /\ x.n # 0

\* StringModel.findByFilters: the conditions appended to WHERE 1=1, applied
\* to the table.  ILIKE compares without regard to case.
StringModel_findByFilters(table, filters) ==
    {r \in table :
        /\ Has(filters, "is_palindrome") => r.is_palindrome = filters["is_palindrome"]
        /\ (Has(filters, "min_length") /\ TruthyNumber(filters["min_length"]))
              => r.length >= filters["min_length"].n
        /\ (Has(filters, "max_length") /\ TruthyNumber(filters["max_length"]))
              => r.length <= filters["max_length"].n
        /\ (Has(filters, "word_count") /\ TruthyNumber(filters["word_count"]))
              => r.word_count = filters["word_count"].n
        /\ Truthy(filters, "contains_character")
              => Like(toLowerCase(r.value),
                      toLowerCase(<<"%">> \o filters["contains_character"] \o <<"%">>))}

\* The filters object getAllStrings builds from req.query.
StringController_filters(query) ==
    [n \in {f \in {"is_palindrome", "min_length", "max_length", "word_count",
                    "contains_character"} : Truthy(query, f)} |->
        CASE n = "is_palindrome" -> query[n] = <<"t", "r", "u", "e">>
          [] n = "contains_character" -> query[n]
          [] OTHER -> parseInt(query[n])]

\* A SELECT without ORDER BY: the rows in any order.
AnyOrder(rows) ==
    {q \in [1..Cardinality(rows) -> rows] : \A i, j \in DOMAIN q : i # j => q[i] # q[j]}

\* StringController.getAllStrings; no statement it issues is refused, so the
\* catch branch ('Invalid query parameters') is never entered.
StringController_getAllStrings(c) ==
    /\ pc[c] = "idle"
    /\ \E query \in FilterRequests :
         \E rows \in AnyOrder(StringModel_findByFilters(strings, StringController_filters(query))) :
            Finish(c, [op |-> "QUERY", query |-> query],
                   [status |-> 200,
                    body |-> [data |-> [i \in DOMAIN rows |-> StringController_body(rows[i])],
                              count |-> Len(rows),
                              filters_applied |-> query]])
    /\ UNCHANGED <<strings, now>>

\* The table after createString calls with the values numbered in S, the
\* k-th sent at time k.
ControllerTable(S) ==
    {StringModel_create({}, [id |-> StringService_analyzeString(Str(FilterValues[k])).sha256_hash,
                             value |-> FilterValues[k],
                             properties |-> StringService_analyzeString(Str(FilterValues[k]))],
                        k).row : k \in S}

\* createString refuses the empty string, so no stored record holds it.
InitControllerFilter ==
    /\ strings \in {ControllerTable(S) :
                        S \in SUBSET {k \in DOMAIN FilterValues : FilterValues[k] # <<>>}}
    /\ now = Len(FilterValues)
    /\ pc = [c \in Callers |-> "idle"]
    /\ req = [c \in Callers |-> NoRequest]
    /\ res = [c \in Callers |-> NoResponse]

NextControllerFilter ==
    \/ \E c \in Callers : StringController_getAllStrings(c)
    \/ \E c \in Callers : Respond(c)

SpecControllerFilter == InitControllerFilter /\ [][NextControllerFilter]_vars

(***************************************************************************)
(* Natural language queries: parseNaturalLanguage of stringAnalyzer-Service *)
(* (utils/naturalLanguageParser.js) and parseNaturalLanguageQuery of        *)
(* String-analyzer (src/utils/naturalLanguage.js)                           *)
(***************************************************************************)
\* The texts the parsers look for.
SingleWord ==
    <<"s", "i", "n", "g", "l", "e", " ", "w", "o", "r", "d">>

TwoWords ==
    <<"t", "w", "o", " ", "w", "o", "r", "d", "s">>

Palindrome ==
    <<"p", "a", "l", "i", "n", "d", "r", "o", "m", "e">>

Palindromic ==
    <<"p", "a", "l", "i", "n", "d", "r", "o", "m", "i", "c">>

LongerThan ==
    <<"l", "o", "n", "g", "e", "r", " ", "t", "h", "a", "n", " ">>

ShorterThan ==
    <<"s", "h", "o", "r", "t", "e", "r", " ", "t", "h", "a", "n", " ">>

Character ==
    <<" ", "c", "h", "a", "r", "a", "c", "t", "e", "r">>

Contains ==
    <<"c", "o", "n", "t", "a", "i", "n", "s", " ">>

TheLetter ==
    <<"t", "h", "e", " ", "l", "e", "t", "t", "e", "r", " ">>

TheFirstVowel ==
    <<"t", "h", "e", " ", "f", "i", "r", "s", "t", " ", "v", "o", "w", "e",
      "l", " ">>

TheCharacter ==
    <<"t", "h", "e", " ", "c", "h", "a", "r", "a", "c", "t", "e", "r", " ">>

ContainingTheLetter ==
    <<"c", "o", "n", "t", "a", "i", "n", "i", "n", "g", " ", "t", "h", "e",
      " ", "l", "e", "t", "t", "e", "r", " ">>

ContainingTheLetterZ ==
    <<"c", "o", "n", "t", "a", "i", "n", "i", "n", "g", " ", "t", "h", "e",
      " ", "l", "e", "t", "t", "e", "r", " ", "z">>

FirstVowel ==
    <<"f", "i", "r", "s", "t", " ", "v", "o", "w", "e", "l">>

UpperLetters ==
    {"A", "B", "C", "D", "E", "F", "G", "H", "I", "J", "K", "L", "M",
     "N", "O", "P", "Q", "R", "S", "T", "U", "V", "W", "X", "Y", "Z"}

\* The characters the class \w holds.
WordChars == LowerLetters \cup UpperLetters \cup Digits \cup {"_"}

Min(S) == CHOOSE x \in S : \A y \in S : x <= y

\* The part of s from position i on.
From(s, i) == SubSeq(s, i, Len(s))

\* The positions at which /prefix(\d+)suffix/ matches s.  \d+ takes every
\* digit there is: no suffix in use starts with a digit.
NumberMatches(s, prefix, suffix) ==
    {i \in 1..Len(s) :
        /\ StartsWithAt(s, i, prefix)
        /\ LET d == DigitPrefix(From(s, i + Len(prefix))) IN
              d # <<>> /\ StartsWithAt(s, i + Len(prefix) + Len(d), suffix)}

\* s.match(/prefix(\d+)suffix/): the leftmost match and its group.
MatchNumber(s, prefix, suffix) ==
    IF NumberMatches(s, prefix, suffix) = {} THEN [matched |-> FALSE]
    ELSE [matched |-> TRUE,
          group |-> DigitPrefix(From(s, Min(NumberMatches(s, prefix, suffix)) + Len(prefix)))]

\* The positions at which /prefix(\w)/ matches s.
WordCharMatches(s, prefix) ==
    {i \in 1..Len(s) :
        /\ StartsWithAt(s, i, prefix)
        /\ i + Len(prefix) <= Len(s)
        /\ s[i + Len(prefix)] \in WordChars}

\* s.match(/prefix(\w)/)
MatchWordChar(s, prefix) ==
    IF WordCharMatches(s, prefix) = {} THEN [matched |-> FALSE]
    ELSE [matched |-> TRUE, group |-> s[Min(WordCharMatches(s, prefix)) + Len(prefix)]]

\* ([a-z])\b at position j: a letter that ends a word.
LetterThenBoundary(s, j) ==
    /\ j <= Len(s)
    /\ s[j] \in LowerLetters
    /\ (j = Len(s) \/ s[j + 1] \notin WordChars)

\* Where group 2 of /contains (the letter |the first vowel |the character )?([a-z])\b/
\* lies when the match starts at i: after one of the three texts or, without
\* them, right after "contains ".  At most one of the cases applies.
ContainsGroupAt(s, i) ==
    {i + Len(Contains) + Len(g) :
        g \in {g \in {TheLetter, TheFirstVowel, TheCharacter, <<>>} :
                  /\ StartsWithAt(s, i + Len(Contains), g)
                  /\ LetterThenBoundary(s, i + Len(Contains) + Len(g))}}

ContainsMatches(s) ==
    {i \in 1..Len(s) : StartsWithAt(s, i, Contains) /\ ContainsGroupAt(s, i) # {}}

\* s.match(/contains (the letter |the first vowel |the character )?([a-z])\b/)
MatchContains(s) ==
    IF ContainsMatches(s) = {} THEN [matched |-> FALSE]
    ELSE [matched |-> TRUE, group |-> s[Min(ContainsGroupAt(s, Min(ContainsMatches(s))))]]

DigitChar(d) == CASE d = 0 -> "0" [] d = 1 -> "1" [] d = 2 -> "2" [] d = 3 -> "3"
                  [] d = 4 -> "4" [] d = 5 -> "5" [] d = 6 -> "6" [] d = 7 -> "7"
                  [] d = 8 -> "8" [] d = 9 -> "9"

RECURSIVE NaturalToString(_)
NaturalToString(n) ==
    IF n < 10 THEN <<DigitChar(n)>> ELSE NaturalToString(n \div 10) \o <<DigitChar(n % 10)>>

\* String(n) for an integer n
NumberToString(n) == IF n < 0 THEN <<"-">> \o NaturalToString(0 - n) ELSE NaturalToString(n)

\* parseNaturalLanguage of stringAnalyzer-Service: the filters, their values
\* strings as in req.query, or the error thrown.
parseNaturalLanguage(query) ==
    LET lowerQuery == toLowerCase(query)
        minLengthMatch == MatchNumber(lowerQuery, LongerThan, Character)
        maxLengthMatch == MatchNumber(lowerQuery, ShorterThan, Character)
        containsMatch == MatchContains(lowerQuery)
        keys == {n \in {"is_palindrome", "word_count", "min_length", "max_length",
                        "contains_character"} :
                    CASE n = "is_palindrome" ->
                            includes(lowerQuery, Palindrome) \/ includes(lowerQuery, Palindromic)
                      [] n = "word_count" ->
                            includes(lowerQuery, SingleWord) \/ includes(lowerQuery, TwoWords)
                      [] n = "min_length" -> minLengthMatch.matched
                      [] n = "max_length" -> maxLengthMatch.matched
                      [] n = "contains_character" ->
                            containsMatch.matched \/ includes(lowerQuery, ContainingTheLetterZ)}
        filters ==
            [n \in keys |->
                CASE n = "is_palindrome" -> <<"t", "r", "u", "e">>
                  [] n = "word_count" ->
                        IF includes(lowerQuery, SingleWord) THEN <<"1">> ELSE <<"2">>
                  [] n = "min_length" -> NumberToString(parseInt(minLengthMatch.group).n + 1)
                  [] n = "max_length" -> NumberToString(parseInt(maxLengthMatch.group).n - 1)
                  [] n = "contains_character" ->
                        IF containsMatch.matched
                        THEN (IF includes(lowerQuery, FirstVowel) THEN <<"a">>
                              ELSE <<containsMatch.group>>)
                        ELSE <<"z">>]
        minLen == IF Has(filters, "min_length") THEN parseInt(filters["min_length"]) ELSE NaN
        maxLen == IF Has(filters, "max_length") THEN parseInt(filters["max_length"]) ELSE NaN
    IN  IF ~minLen.nan /\ ~maxLen.nan /\ minLen.n > maxLen.n
        THEN Throw("Query parsed but resulted in conflicting length filters")
        ELSE IF keys = {}
        THEN Throw("Unable to parse natural language query into filters.")
        ELSE [err |-> FALSE, filters |-> filters]

\* parseNaturalLanguageQuery of String-analyzer (naturalLanguage.js, the
\* first of its definitions): the filters, their values numbers, booleans
\* and a character, or the error thrown.
parseNaturalLanguageQuery(query) ==
    LET lowerQuery == trim(toLowerCase(query))
        minLengthMatch == MatchNumber(lowerQuery, LongerThan, <<>>)
        maxLengthMatch == MatchNumber(lowerQuery, ShorterThan, <<>>)
        charMatch == MatchWordChar(lowerQuery, ContainingTheLetter)
        keys == {n \in {"word_count", "is_palindrome", "min_length", "max_length",
                        "contains_character"} :
                    CASE n = "word_count" -> includes(lowerQuery, SingleWord)
                      [] n = "is_palindrome" ->
                            includes(lowerQuery, Palindromic) \/ includes(lowerQuery, Palindrome)
                      [] n = "min_length" -> minLengthMatch.matched
                      [] n = "max_length" -> maxLengthMatch.matched
                      [] n = "contains_character" ->
                            charMatch.matched \/ includes(lowerQuery, FirstVowel)}
        filters ==
            [n \in keys |->
                CASE n = "word_count" -> 1
                  [] n = "is_palindrome" -> TRUE
                  [] n = "min_length" -> parseInt(minLengthMatch.group).n + 1
                  [] n = "max_length" -> parseInt(maxLengthMatch.group).n - 1
                  [] n = "contains_character" ->
                        IF includes(lowerQuery, FirstVowel) THEN <<"a">>
                        ELSE <<LowerOf(charMatch.group)>>]
    IN  IF keys = {}
        THEN Throw("Unable to parse natural language query")
        ELSE IF /\ Has(filters, "min_length") /\ filters["min_length"] # 0
                /\ Has(filters, "max_length") /\ filters["max_length"] # 0
                /\ filters["min_length"] > filters["max_length"]
        THEN Throw("Query parsed but resulted in conflicting filters")
        ELSE [err |-> FALSE, filters |-> filters]

\* "Find a single word palindromic string longer than 5"
ExampleQuery ==
    <<"F", "i", "n", "d", " ", "a", " ", "s", "i", "n", "g", "l", "e", " ",
      "w", "o", "r", "d", " ", "p", "a", "l", "i", "n", "d", "r", "o", "m",
      "i", "c", " ", "s", "t", "r", "i", "n", "g", " ", "l", "o", "n", "g",
      "e", "r", " ", "t", "h", "a", "n", " ", "5">>

\* "tell me a joke"
JokeQuery ==
    <<"t", "e", "l", "l", " ", "m", "e", " ", "a", " ", "j", "o", "k", "e">>

\* The queries the callers send: the two above, "two words", "first vowel",
\* "FIRST VOWEL", "contains the first vowel", "contains the letter b", and
\* the queries built from clauses below.
PlainQueries ==
    {ExampleQuery, JokeQuery, TwoWords, FirstVowel,
     <<"F", "I", "R", "S", "T", " ", "V", "O", "W", "E", "L">>,
     Contains \o <<"t", "h", "e", " ">> \o FirstVowel,
     Contains \o TheLetter \o <<"b">>}

\* The numbers N and M of "longer than N" and "shorter than M".
QueryNumbers == {<<"0">>, <<"1">>, <<"5">>, <<"1", "0">>}

\* What follows a number: nothing or " characters".
QueryTails ==
    {<<>>,
     <<" ", "c", "h", "a", "r", "a", "c", "t", "e", "r", "s">>}

\* " and ": what joins two clauses.
QueryAnd == <<" ", "a", "n", "d", " ">>

LongerClauses == {LongerThan \o n \o t : n \in QueryNumbers, t \in QueryTails}

ShorterClauses == {ShorterThan \o n \o t : n \in QueryNumbers, t \in QueryTails}

\* What follows "containing the letter ": a letter in either case, a digit,
\* an underscore, the words "zebra" and "ab".
QueryLetters ==
    {<<"a">>, <<"z">>, <<"Q">>, <<"5">>, <<"_">>, <<"z", "e", "b", "r", "a">>, <<"a", "b">>}

NLQueries ==
    PlainQueries
    \cup LongerClauses
    \cup ShorterClauses
    \cup {l \o QueryAnd \o sh : l \in LongerClauses, sh \in ShorterClauses}
    \cup {ContainingTheLetter \o x : x \in QueryLetters}

\* A call of parseNaturalLanguage (stringAnalyzer-Service).
CallParseNaturalLanguage(c) ==
    /\ pc[c] = "idle"
    /\ \E query \in NLQueries :
         Finish(c, [op |-> "interpret", parser |-> "parseNaturalLanguage", query |-> query],
                [status |-> 0, result |-> parseNaturalLanguage(query)])
    /\ UNCHANGED <<strings, now>>

\* A call of parseNaturalLanguageQuery (String-analyzer).
CallParseNaturalLanguageQuery(c) ==
    /\ pc[c] = "idle"
    /\ \E query \in NLQueries :
         Finish(c, [op |-> "interpret", parser |-> "parseNaturalLanguageQuery", query |-> query],
                [status |-> 0, result |-> parseNaturalLanguageQuery(query)])
    /\ UNCHANGED <<strings, now>>

\* The interpreter of stringAnalyzer-Service on its own.
NextParseNaturalLanguage ==
    \/ \E c \in Callers : CallParseNaturalLanguage(c)
    \/ \E c \in Callers : Respond(c)

SpecParseNaturalLanguage == Init /\ [][NextParseNaturalLanguage]_vars

\* The interpreter of String-analyzer on its own.
NextParseNaturalLanguageQuery ==
    \/ \E c \in Callers : CallParseNaturalLanguageQuery(c)
    \/ \E c \in Callers : Respond(c)

SpecParseNaturalLanguageQuery == Init /\ [][NextParseNaturalLanguageQuery]_vars

(***************************************************************************)
(* GET /strings/filter-by-natural-language of stringAnalyzer-Service        *)
(***************************************************************************)
\* The characters of error.message, for the messages that are thrown.
MessageChars(message) ==
    CASE message = "Query parsed but resulted in conflicting length filters" ->
            <<"Q", "u", "e", "r", "y", " ", "p", "a", "r", "s", "e", "d",
              " ", "b", "u", "t", " ", "r", "e", "s", "u", "l", "t", "e",
              "d", " ", "i", "n", " ", "c", "o", "n", "f", "l", "i", "c",
              "t", "i", "n", "g", " ", "l", "e", "n", "g", "t", "h", " ",
              "f", "i", "l", "t", "e", "r", "s">>
      [] message = "Unable to parse natural language query into filters." ->
            <<"U", "n", "a", "b", "l", "e", " ", "t", "o", " ", "p", "a",
              "r", "s", "e", " ", "n", "a", "t", "u", "r", "a", "l", " ",
              "l", "a", "n", "g", "u", "a", "g", "e", " ", "q", "u", "e",
              "r", "y", " ", "i", "n", "t", "o", " ", "f", "i", "l", "t",
              "e", "r", "s", ".">>
      [] message = "min_length must be an integer." ->
            <<"m", "i", "n", "_", "l", "e", "n", "g", "t", "h", " ", "m",
              "u", "s", "t", " ", "b", "e", " ", "a", "n", " ", "i", "n",
              "t", "e", "g", "e", "r", ".">>
      [] message = "max_length must be an integer." ->
            <<"m", "a", "x", "_", "l", "e", "n", "g", "t", "h", " ", "m",
              "u", "s", "t", " ", "b", "e", " ", "a", "n", " ", "i", "n",
              "t", "e", "g", "e", "r", ".">>
      [] message = "word_count must be an integer." ->
            <<"w", "o", "r", "d", "_", "c", "o", "u", "n", "t", " ", "m",
              "u", "s", "t", " ", "b", "e", " ", "a", "n", " ", "i", "n",
              "t", "e", "g", "e", "r", ".">>
      [] message = "contains_character must be a single character string." ->
            <<"c", "o", "n", "t", "a", "i", "n", "s", "_", "c", "h", "a",
              "r", "a", "c", "t", "e", "r", " ", "m", "u", "s", "t", " ",
              "b", "e", " ", "a", " ", "s", "i", "n", "g", "l", "e", " ",
              "c", "h", "a", "r", "a", "c", "t", "e", "r", " ", "s", "t",
              "r", "i", "n", "g", ".">>
      [] message = "Unable to parse natural language query" ->
            <<"U", "n", "a", "b", "l", "e", " ", "t", "o", " ", "p", "a",
              "r", "s", "e", " ", "n", "a", "t", "u", "r", "a", "l", " ",
              "l", "a", "n", "g", "u", "a", "g", "e", " ", "q", "u", "e",
              "r", "y">>
      [] message = "Query parsed but resulted in conflicting filters" ->
            <<"Q", "u", "e", "r", "y", " ", "p", "a", "r", "s", "e", "d",
              " ", "b", "u", "t", " ", "r", "e", "s", "u", "l", "t", "e",
              "d", " ", "i", "n", " ", "c", "o", "n", "f", "l", "i", "c",
              "t", "i", "n", "g", " ", "f", "i", "l", "t", "e", "r", "s">>

UnableToParse ==
    <<"U", "n", "a", "b", "l", "e", " ", "t", "o", " ", "p", "a", "r", "s",
      "e">>

Conflicting ==
    <<"C", "o", "n", "f", "l", "i", "c", "t", "i", "n", "g">>

\* The queries sent to the natural language handlers.
HandlerQueries ==
    PlainQueries
    \cup LongerClauses
    \cup ShorterClauses
    \cup {LongerThan \o n \o t \o QueryAnd \o ShorterThan \o m \o t :
            n \in {<<"1">>, <<"5">>}, m \in {<<"1">>, <<"5">>}, t \in QueryTails}
    \cup {ContainingTheLetter \o x : x \in QueryLetters}

\* req.query of the requests: with the query parameter or without it.
HandlerRequests == {<<>>} \cup {OneFilter("query", q) : q \in HandlerQueries}

\* The catch block of the handler.
NaturalLanguageCaught(message) ==
    IF includes(MessageChars(message), UnableToParse)
    THEN [status |-> 400, error |-> message]
    ELSE IF includes(MessageChars(message), Conflicting)
    THEN [status |-> 422, error |-> message]
    ELSE InternalServerError(message)

\* router.get('/filter-by-natural-language'), entered as a handler.
NaturalLanguageFilter(c) ==
    /\ pc[c] = "idle"
    /\ \E query \in HandlerRequests :
         LET r == [op |-> "NLQUERY", parser |-> "parseNaturalLanguage", query |-> query] IN
         IF ~Truthy(query, "query")
         THEN Finish(c, r, [status |-> 400, error |-> "Missing \"query\" parameter."])
         ELSE LET parsedFilters == parseNaturalLanguage(query["query"]) IN
              IF parsedFilters.err
              THEN Finish(c, r, NaturalLanguageCaught(parsedFilters.message))
              ELSE LET built == buildFilterQuery(parsedFilters.filters) IN
                   IF built.err
                   THEN Finish(c, r, NaturalLanguageCaught(built.message))
                   ELSE \E rows \in OrderedByCreatedAtDesc(Selected(strings, built.where)) :
                          Finish(c, r,
                                 [status |-> 200,
                                  body |-> [data |-> [i \in DOMAIN rows |-> formatResponse(rows[i])],
                                            count |-> Len(rows),
                                            interpreted_query |->
                                               [original |-> query["query"],
                                                parsed_filters |-> parsedFilters.filters]]])
    /\ UNCHANGED <<strings, now>>

NextNaturalLanguageFilter ==
    \/ \E c \in Callers : NaturalLanguageFilter(c)
    \/ \E c \in Callers : Respond(c)

SpecNaturalLanguageFilter == InitFilter /\ [][NextNaturalLanguageFilter]_vars

(***************************************************************************)
(* String-analyzer/src/routes/strings.js: the router over the model with    *)
(* a properties column (models/string.js)                                   *)
(***************************************************************************)
\* The row String.create stores for a value at time t.
StringsRouter_row(v, t) ==
    LET a == StringService_analyzeString(Str(v)) IN
    [id |-> a.sha256_hash,
     value |-> v,
     properties |-> [length |-> a.length,
                     is_palindrome |-> a.is_palindrome,
                     unique_characters |-> a.unique_characters,
                     word_count |-> a.word_count,
                     sha256_hash |-> a.sha256_hash,
                     character_frequency_map |-> a.character_frequency_map],
     created_at |-> t]

\* The table after POSTs of the values numbered in S, the k-th sent at time k.
StringsRouterTable(S) == {StringsRouter_row(FilterValues[k], k) : k \in S}

\* router.post('/') refuses the empty string (!value), so no row holds it.
InitStringsRouter ==
    /\ strings \in {StringsRouterTable(S) :
                        S \in SUBSET {k \in DOMAIN FilterValues : FilterValues[k] # <<>>}}
    /\ now = Len(FilterValues)
    /\ pc = [c \in Callers |-> "idle"]
    /\ req = [c \in Callers |-> NoRequest]
    /\ res = [c \in Callers |-> NoResponse]

\* String.findAll({ where }) for the where object the handler builds from
\* the filters; Op.like is LIKE, which tells upper case from lower case.
StringsRouter_findAll(table, filters) ==
    {r \in table :
        /\ Has(filters, "is_palindrome") => r.properties.is_palindrome = filters["is_palindrome"]
        /\ Has(filters, "min_length") => r.properties.length >= filters["min_length"]
        /\ Has(filters, "word_count") => r.properties.word_count = filters["word_count"]
        /\ Has(filters, "contains_character") =>
              Like(r.value, <<"%">> \o filters["contains_character"] \o <<"%">>)}

\* router.get('/filter-by-natural-language') of strings.js, entered as a
\* handler.
StringsRouter_filterByNaturalLanguage(c) ==
    /\ pc[c] = "idle"
    /\ \E query \in HandlerRequests :
         LET r == [op |-> "NLQUERY", parser |-> "parseNaturalLanguageQuery", query |-> query] IN
         IF ~Truthy(query, "query")
         THEN Finish(c, r, [status |-> 400, error |-> "Missing query parameter"])
         ELSE LET filters == parseNaturalLanguageQuery(query["query"]) IN
              IF filters.err
              THEN Finish(c, r, [status |-> 400,
                                 error |-> "Unable to parse natural language query"])
              ELSE \E rows \in AnyOrder(StringsRouter_findAll(strings, filters.filters)) :
                     Finish(c, r,
                            [status |-> 200,
                             body |-> [data |-> [i \in DOMAIN rows |->
                                                    [id |-> rows[i].id,
                                                     value |-> rows[i].value,
                                                     properties |-> rows[i].properties,
                                                     created_at |-> toISOString(rows[i].created_at)]],
                                       count |-> Len(rows),
                                       interpreted_query |->
                                          [original |-> query["query"],
                                           parsed_filters |-> filters.filters]]])
    /\ UNCHANGED <<strings, now>>

NextStringsRouter ==
    \/ \E c \in Callers : StringsRouter_filterByNaturalLanguage(c)
    \/ \E c \in Callers : Respond(c)

SpecStringsRouter == InitStringsRouter /\ [][NextStringsRouter]_vars

(***************************************************************************)
(* express.Router: the routes in the order of their registration and the    *)
(* dispatch of a request to the first route that matches                    *)
(***************************************************************************)
\* A segment of a route path: a parameter (:name) or a fixed text.
Param(name) == [param |-> TRUE, name |-> name]

Lit(text) == [param |-> FALSE, text |-> text]

Route(method, path, handler) == [method |-> method, path |-> path, handler |-> handler]

\* stringAnalyzer-Service/routes/string routes.js, paths relative to the mount.
StringRoutes ==
    <<Route("POST", <<>>, "router.post('/')"),
      Route("GET", <<Param("stringValue")>>, "router.get('/:stringValue')"),
      Route("GET", <<>>, "router.get('/')"),
      Route("GET", <<Lit("filter-by-natural-language")>>,
            "router.get('/filter-by-natural-language')"),
      Route("DELETE", <<Param("stringValue")>>, "router.delete('/:stringValue')")>>

\* String-analyzer/src/routes/strings.js, the router over models/string.js.
StringsRouterRoutes ==
    <<Route("POST", <<>>, "router.post('/')"),
      Route("GET", <<Param("stringValue")>>, "router.get('/:stringValue')"),
      Route("GET", <<>>, "router.get('/')"),
      Route("GET", <<Lit("filter-by-natural-language")>>,
            "router.get('/filter-by-natural-language')"),
      Route("DELETE", <<Param("stringValue")>>, "router.delete('/:stringValue')")>>

\* String-analyzer/src/routes/strings.js, the router of StringController.
ControllerRoutes ==
    <<Route("POST", <<Lit("strings")>>, "StringController.createString"),
      Route("GET", <<Lit("strings"), Param("value")>>, "StringController.getString"),
      Route("GET", <<Lit("strings")>>, "StringController.getAllStrings"),
      Route("GET", <<Lit("strings"), Lit("filter-by-natural-language")>>,
            "StringController.filterByNaturalLanguage"),
      Route("DELETE", <<Lit("strings"), Param("value")>>, "StringController.deleteString")>>

Routers ==
    [router \in {"stringAnalyzer-Service", "strings.js", "StringController"} |->
        CASE router = "stringAnalyzer-Service" -> StringRoutes
          [] router = "strings.js" -> StringsRouterRoutes
          [] router = "StringController" -> ControllerRoutes]

\* A route path matches a request path, both sequences of segments: a
\* parameter matches any one segment, a text only itself.
PathMatches(pattern, path) ==
    /\ Len(pattern) = Len(path)
    /\ \A i \in DOMAIN pattern : pattern[i].param \/ pattern[i].text = path[i]

\* router.handle: the handler of the first route registered for the method
\* whose path matches; without one the request falls through (404).
Dispatch(routes, method, path) ==
    LET matching == {i \in DOMAIN routes :
                        routes[i].method = method /\ PathMatches(routes[i].path, path)}
    IN  IF matching = {} THEN "none" ELSE routes[Min(matching)].handler

\* The request paths sent, as sequences of segments.
RequestPaths ==
    {<<>>, <<"filter-by-natural-language">>, <<"hello">>, <<"strings">>,
     <<"strings", "filter-by-natural-language">>, <<"strings", "hello">>}

\* A request reaches a router and is dispatched.
Handle(c) ==
    /\ pc[c] = "idle"
    /\ \E router \in DOMAIN Routers, method \in {"GET", "POST", "DELETE"}, path \in RequestPaths :
         Finish(c, [op |-> "ROUTE", router |-> router, method |-> method, path |-> path],
                [status |-> 0, handler |-> Dispatch(Routers[router], method, path)])
    /\ UNCHANGED <<strings, now>>

NextRouter ==
    \/ \E c \in Callers : Handle(c)
    \/ \E c \in Callers : Respond(c)

SpecRouter == Init /\ [][NextRouter]_vars

(***************************************************************************)
(* The two analyzers called on their own: analyzeString of                  *)
(* stringAnalyzer-Service and StringService.analyzeString of String-analyzer *)
(***************************************************************************)
\* "hello world"
HelloWorld ==
    <<"h", "e", "l", "l", "o", " ", "w", "o", "r", "l", "d">>

\* "A man, a plan, a canal: Panama"
Panama ==
    <<"A", " ", "m", "a", "n", ",", " ", "a", " ", "p", "l", "a", "n", ",",
      " ", "a", " ", "c", "a", "n", "a", "l", ":", " ", "P", "a", "n", "a",
      "m", "a">>

\* The values analysed: the empty string, whitespace only (space, two
\* spaces, tab), the two above, punctuation only, one word in mixed case,
\* words with leading, repeated and trailing whitespace, the code point
\* outside the Basic Multilingual Plane alone and after a letter.
AnalyzerValues ==
    {<<>>, <<" ">>, <<" ", " ">>, <<"\t">>, HelloWorld, Panama, <<",", ":">>,
     <<"A", "b", "a">>, <<" ", "a", " ", "\t", "b", " ">>, <<Astral>>, <<"a", Astral>>}

CallAnalyzeString(c) == AnalyzeOf(c, {Str(s) : s \in AnalyzerValues})

\* A call of StringService.analyzeString.
CallStringService_analyzeString(c) ==
    /\ pc[c] = "idle"
    /\ \E s \in AnalyzerValues :
         Finish(c, [op |-> "StringService.analyzeString", value |-> Str(s)],
                [status |-> 0, returned |-> StringService_analyzeString(Str(s))])
    /\ UNCHANGED <<strings, now>>

NextAnalyzers ==
    \/ \E c \in Callers : CallAnalyzeString(c)
    \/ \E c \in Callers : CallStringService_analyzeString(c)
    \/ \E c \in Callers : Respond(c)

SpecAnalyzers == Init /\ [][NextAnalyzers]_vars

(***************************************************************************)
(* Properties                                                               *)
(***************************************************************************)
RowsOf(table, v) == {r \in table : r.value = v}

IsPostOfString(r) == r.op = "POST" /\ Has(r.body, "value") /\ IsString(r.body.value)

\* The step in which caller c's handler for op starts.
Starts(c, op) == pc[c] = "idle" /\ pc'[c] # "idle" /\ req'[c].op = op

PostStarts(c) == Starts(c, "POST") /\ IsPostOfString(req'[c])

\* C1: in every reachable state there is at most one record for any value,
\* and at most one record for any id.
C1_OneRecordPerValue ==
    \A r1, r2 \in strings : (r1.value = r2.value \/ r1.id = r2.id) => r1 = r2

\* C1's case: a second INSERT of a stored value was attempted and refused.
C1_Witness ==
    \E c \in Callers :
        /\ IsPostOfString(req[c])
        /\ res[c] = InternalServerError("duplicate key value")
        /\ RowsOf(strings, req[c].body.value.s) # {}

\* C2: Create's existence check and its write are one atomic step: a Create
\* of a string value ends with the new record or with Conflict, and never in
\* an internal failure because another caller wrote the value between the
\* check and the write.
C2_CreateIsAtomic ==
    \A c \in Callers :
        (pc[c] = "done" /\ IsPostOfString(req[c])) =>
            \/ res[c].status \in {201, 409}
            \/ res[c] = InternalServerError("Cannot read properties of undefined")

\* C3: sequential calls: Create(v) with no record for v persists one record,
\* stamped with the time of the insert, and returns it; Create(v) while the
\* record exists returns Conflict and leaves the store as it was.
C3_SequentialCreate ==
    [][\A c \in Callers :
        /\ (PostStarts(c) /\ RowsOf(strings, req'[c].body.value.s) # {}) =>
              res'[c].status = 409 /\ strings' = strings
        /\ (PostStarts(c) /\ RowsOf(strings, req'[c].body.value.s) = {}) =>
              pc'[c] = "insert" /\ strings' = strings
        /\ (pc[c] = "insert" /\ pc'[c] # "insert" /\ RowsOf(strings, req[c].body.value.s) = {}) =>
              /\ pc'[c] = "readback"
              /\ \E r \in strings' :
                    /\ strings' = strings \cup {r}
                    /\ r.value = req[c].body.value.s
                    /\ r.created_at = now
        /\ (pc[c] = "readback" /\ pc'[c] # "readback" /\ RowsOf(strings, req[c].body.value.s) # {}) =>
              /\ res'[c].status = 201
              /\ strings' = strings
              /\ \E r \in strings :
                    /\ res'[c].body.id = r.id
                    /\ res'[c].body.value = req[c].body.value.s
                    /\ res'[c].body.value = r.value
                    /\ res'[c].body.created_at = <<"ISO", r.created_at>>
      ]_vars

\* C3's case: one caller holds the created record, another holds the Conflict
\* for the same value, and the record is in the store.
C3_Witness ==
    \E c1, c2 \in Callers :
        /\ IsPostOfString(req[c1]) /\ req[c2] = req[c1]
        /\ res[c1].status = 201 /\ res[c2].status = 409
        /\ \E r \in RowsOf(strings, req[c1].body.value.s) :
              res[c1].body.created_at = <<"ISO", r.created_at>>

\* C4: for every record of the store, its id is the digest of its value and
\* its stored properties are the ones analyze computes from its value.
C4_RoundTrip ==
    \A r \in strings :
        LET a == analyzeString(Str(r.value), r.created_at) IN
        /\ r.id = a.id
        /\ r.length = a.properties.length
        /\ r.is_palindrome = a.properties.is_palindrome
        /\ r.unique_characters = a.properties.unique_characters
        /\ r.word_count = a.properties.word_count
        /\ r.id = a.properties.sha256_hash
        /\ r.char_freq_map = a.properties.character_frequency_map

\* C4's case: a record of a value whose properties all differ is stored.
C4_Witness ==
    \E r \in strings : r.value = <<"A", " ", "a">> /\ r.word_count = 2 /\ r.unique_characters = 3

\* C5: a record stays as it is from its creation to its deletion: a step
\* that leaves a record of the same id or value in the store leaves the
\* record itself.
C5_RecordsImmutable ==
    [][\A r \in strings :
          (\E r2 \in strings' : r2.id = r.id \/ r2.value = r.value) => r \in strings'
      ]_vars

\* C5's case: a record created earlier is observed by a Retrieve later.
C5_Witness ==
    \E c \in Callers :
        /\ req[c].op = "GET" /\ res[c].status = 200
        /\ now > 0
        /\ res[c].body.created_at = <<"ISO", 0>>
        /\ RowsOf(strings, req[c].stringValue) # {}

\* C6: Delete(v) of a stored value removes the record in the same step;
\* from then on Retrieve(v) gives NotFound, Create(v) is not refused as a
\* Conflict and its insert succeeds, and a record for v comes back only by
\* the insert of a Create(v).
C6_DeleteIsImmediate ==
    [][/\ \A c \in Callers :
            /\ (Starts(c, "DELETE") /\ RowsOf(strings, req'[c].stringValue) # {}) =>
                  res'[c].status = 204 /\ RowsOf(strings', req'[c].stringValue) = {}
            /\ (Starts(c, "GET") /\ RowsOf(strings, req'[c].stringValue) = {}) =>
                  res'[c].status = 404
            /\ (PostStarts(c) /\ RowsOf(strings, req'[c].body.value.s) = {}) =>
                  pc'[c] = "insert"
            /\ (pc[c] = "insert" /\ pc'[c] # "insert"
                  /\ RowsOf(strings, req[c].body.value.s) = {}) =>
                  RowsOf(strings', req[c].body.value.s) # {}
       /\ \A v \in StringValues :
            (RowsOf(strings, v) = {} /\ RowsOf(strings', v) # {}) =>
                \E c \in Callers :
                    pc[c] = "insert" /\ pc'[c] = "readback" /\ req[c].body.value = Str(v)
      ]_vars

\* C6's case: a value was deleted and then created again.
C6_Witness ==
    \E c1, c2 \in Callers :
        /\ req[c1].op = "DELETE" /\ res[c1].status = 204
        /\ IsPostOfString(req[c2]) /\ req[c2].body.value.s = req[c1].stringValue
        /\ res[c2].status = 201
        /\ RowsOf(strings, req[c1].stringValue) # {}

\* C7: Retrieve(v) and Delete(v) of a value without a record answer NotFound
\* and change no record; Retrieve(v) of a stored value answers with the
\* record whose value is v, field by field, and changes no record.
C7_RetrieveAndMiss ==
    [][\A c \in Callers :
        /\ Starts(c, "GET") =>
              /\ strings' = strings
              /\ IF RowsOf(strings, req'[c].stringValue) = {}
                 THEN res'[c].status = 404
                 ELSE /\ res'[c].status = 200
                      /\ res'[c].body.value = req'[c].stringValue
                      /\ \E r \in strings :
                            /\ r.value = req'[c].stringValue
                            /\ res'[c].body.id = r.id
                            /\ res'[c].body.properties.length = r.length
                            /\ res'[c].body.properties.is_palindrome = r.is_palindrome
                            /\ res'[c].body.properties.unique_characters = r.unique_characters
                            /\ res'[c].body.properties.word_count = r.word_count
                            /\ res'[c].body.properties.sha256_hash = r.id
                            /\ res'[c].body.properties.character_frequency_map = r.char_freq_map
                            /\ res'[c].body.created_at = <<"ISO", r.created_at>>
        /\ (Starts(c, "DELETE") /\ RowsOf(strings, req'[c].stringValue) = {}) =>
              res'[c].status = 404 /\ strings' = strings
      ]_vars

\* C7's case: one caller retrieved a stored value while another value has
\* no record, and the other caller's Delete of a missing value got NotFound.
C7_Witness ==
    \E c1, c2 \in Callers :
        /\ req[c1].op = "GET" /\ res[c1].status = 200
        /\ req[c2].op = "DELETE" /\ res[c2].status = 404
        /\ strings # {}

\* C8: Create never rejects a string value as missing or invalid, the empty
\* string and whitespace-only strings included.
C8_CreateAcceptsEveryString ==
    \A c \in Callers :
        (pc[c] = "done" /\ IsPostOfString(req[c])) => res[c].status \notin {400, 422}

\* C9: a value that is no string makes Create answer TypeMismatch (422) and
\* makes analyze throw; neither returns an analysis and neither writes.
C9_TypeMismatch ==
    [][\A c \in Callers :
        /\ (Starts(c, "POST") /\ Has(req'[c].body, "value") /\ ~IsString(req'[c].body.value)) =>
              res'[c] = [status |-> 422] /\ pc'[c] = "done" /\ strings' = strings
        /\ (Starts(c, "analyze") /\ ~IsString(req'[c].value)) =>
              /\ ~Has(res'[c], "returned")
              /\ Has(res'[c], "thrown")
              /\ strings' = strings
      ]_vars

\* C9's case: a Create of a number was refused and analyze of a null threw.
C9_Witness ==
    \E c1, c2 \in Callers :
        /\ req[c1].op = "POST" /\ Has(req[c1].body, "value")
        /\ req[c1].body.value = [t |-> "number", n |-> 5] /\ res[c1].status = 422
        /\ req[c2].op = "analyze" /\ req[c2].value = [t |-> "object", kind |-> "null"]
        /\ Has(res[c2], "thrown")

\* C10: a structured query with min_length > max_length is rejected and
\* never answered as a successful query.
C10_ConflictingFilterRejected ==
    \A c \in Callers :
        (/\ pc[c] = "done" /\ req[c].op = "QUERY"
         /\ Truthy(req[c].query, "min_length") /\ Truthy(req[c].query, "max_length")
         /\ ~parseInt(req[c].query["min_length"]).nan
         /\ ~parseInt(req[c].query["max_length"]).nan
         /\ parseInt(req[c].query["min_length"]).n > parseInt(req[c].query["max_length"]).n)
        => res[c].status # 200

\* Caller c holds the response to a structured query.
QueryDone(c) == pc[c] = "done" /\ req[c].op = "QUERY"

\* The values of the records a response lists.
ReturnedValues(response) == {response.body.data[i].value : i \in DOMAIN response.body.data}

\* The response lists exactly the stored records that satisfy P, each once.
ReturnsExactly(response, P(_)) ==
    /\ response.status = 200
    /\ ReturnedValues(response) = {r.value : r \in {x \in strings : P(x)}}
    /\ Len(response.body.data) = Cardinality({x \in strings : P(x)})

\* The text of a non-negative integer: decimal digits and nothing else.
IsNonNegativeInteger(v) == v # <<>> /\ \A i \in DOMAIN v : v[i] \in Digits

NumberFields == {"min_length", "max_length", "word_count"}

\* A request of well-formed is_palindrome, min_length, max_length and
\* word_count fields, or of no field.
IsPropertyQuery(q) ==
    /\ DOMAIN q \subseteq {"is_palindrome"} \cup NumberFields
    /\ Has(q, "is_palindrome") =>
          q["is_palindrome"] \in {<<"t", "r", "u", "e">>, <<"f", "a", "l", "s", "e">>}
    /\ \A f \in NumberFields : Has(q, f) => IsNonNegativeInteger(q[f])

\* Record r satisfies every field of request q.
Satisfies(r, q) ==
    /\ Has(q, "is_palindrome") => r.is_palindrome = (q["is_palindrome"] = <<"t", "r", "u", "e">>)
    /\ Has(q, "min_length") => r.length >= DecimalValue(q["min_length"])
    /\ Has(q, "max_length") => r.length <= DecimalValue(q["max_length"])
    /\ Has(q, "word_count") => r.word_count = DecimalValue(q["word_count"])

\* C11: a structured query returns exactly the stored records that satisfy
\* every field present in the request (is_palindrome equal, length >=
\* min_length, length <= max_length, word_count equal), also for
\* is_palindrome = false and for the value 0 of the three numbers; a request
\* with no field returns every stored record.
C11_QueryReturnsTheMatches ==
    \A c \in Callers :
        (QueryDone(c) /\ IsPropertyQuery(req[c].query))
            => LET Matches(r) == Satisfies(r, req[c].query) IN ReturnsExactly(res[c], Matches)

\* Value v holds character ch or its other-case form.
ContainsIgnoringCase(v, ch) == \E i \in DOMAIN v : LowerOf(v[i]) = LowerOf(ch)

\* C12: a query with contains_character = ch, one character, returns exactly
\* the stored records whose value holds ch or its other-case form as a
\* literal character, also when ch is % or _.
C12_ContainsCharacterIsLiteral ==
    \A c \in Callers :
        (/\ QueryDone(c)
         /\ DOMAIN req[c].query = {"contains_character"}
         /\ Len(req[c].query["contains_character"]) = 1)
            => LET Matches(r) == ContainsIgnoringCase(r.value, req[c].query["contains_character"][1])
               IN  ReturnsExactly(res[c], Matches)

\* C13: a structured query whose contains_character is present and is not
\* exactly one character long (empty, or two or more characters) is answered
\* with InvalidFilter (400) and no query reaches the store.
C13_ContainsCharacterLength ==
    \A c \in Callers :
        (/\ QueryDone(c)
         /\ Has(req[c].query, "contains_character")
         /\ Len(req[c].query["contains_character"]) # 1)
            => res[c].status = 400

\* C14: a structured query whose min_length, max_length or word_count is
\* present and is not a non-negative integer (text that is no number, a number
\* followed by other characters, a negative number) is answered with
\* InvalidFilter (400) and no query reaches the store.
C14_MalformedNumberRejected ==
    \A c \in Callers :
        (/\ QueryDone(c)
         /\ \E f \in NumberFields :
               /\ Has(req[c].query, f)
               /\ req[c].query[f] # <<>>
               /\ ~IsNonNegativeInteger(req[c].query[f]))
            => res[c].status = 400

\* Caller c holds the result of a call of a parser.
InterpretDone(c) == pc[c] = "done" /\ req[c].op = "interpret"

\* The query of caller c, case-folded.
Folded(c) == toLowerCase(req[c].query)

Unparseable(result) ==
    result.err /\ result.message \in {"Unable to parse natural language query into filters.",
                                       "Unable to parse natural language query"}

ConflictingFilter(result) ==
    result.err /\ result.message \in {"Query parsed but resulted in conflicting length filters",
                                       "Query parsed but resulted in conflicting filters"}

\* The filter caller c received, its values read as a boolean, numbers and
\* a character whichever parser produced them.
NormalFilter(parser, f) ==
    IF parser = "parseNaturalLanguage"
    THEN [n \in DOMAIN f |->
            CASE n = "is_palindrome" -> f[n] = <<"t", "r", "u", "e">>
              [] n \in NumberFields -> parseInt(f[n]).n
              [] OTHER -> f[n]]
    ELSE f

FilterOf(c) == NormalFilter(req[c].parser, res[c].result.filters)

\* The numbers that follow an occurrence of phrase in s.
NumbersAfter(s, phrase) ==
    {DecimalValue(DigitPrefix(From(s, i + Len(phrase)))) :
        i \in {i \in 1..Len(s) : /\ StartsWithAt(s, i, phrase)
                                 /\ DigitPrefix(From(s, i + Len(phrase))) # <<>>}}

\* C15: "longer than N" is interpreted as min_length = N + 1 for every decimal
\* number N, whatever follows N, together with every other pattern that
\* matches; "Find a single word palindromic string longer than 5" yields
\* exactly word_count = 1, is_palindrome = true, min_length = 6.
C15_LongerThan ==
    \A c \in Callers :
        (InterpretDone(c) /\ NumbersAfter(Folded(c), LongerThan) # {})
            => /\ \/ ConflictingFilter(res[c].result)
                  \/ /\ ~res[c].result.err
                     /\ Has(FilterOf(c), "min_length")
                     /\ FilterOf(c)["min_length"] \in
                            {n + 1 : n \in NumbersAfter(Folded(c), LongerThan)}
               /\ req[c].query = ExampleQuery =>
                     /\ ~res[c].result.err
                     /\ FilterOf(c) = [n \in {"word_count", "is_palindrome", "min_length"} |->
                                        CASE n = "word_count" -> 1
                                          [] n = "is_palindrome" -> TRUE
                                          [] n = "min_length" -> 6]

\* C16: "shorter than N" is interpreted as max_length = N - 1 for every
\* decimal number N, whatever follows N.
C16_ShorterThan ==
    \A c \in Callers :
        (InterpretDone(c) /\ NumbersAfter(Folded(c), ShorterThan) # {})
            => \/ ConflictingFilter(res[c].result)
               \/ /\ ~res[c].result.err
                  /\ Has(FilterOf(c), "max_length")
                  /\ FilterOf(c)["max_length"] \in
                         {n - 1 : n \in NumbersAfter(Folded(c), ShorterThan)}

\* The letters that follow "containing the letter " in s and are one letter
\* long: the next character, if any, is no letter, digit or underscore.
SingleLettersAfter(s) ==
    {s[j] : j \in {j \in 1..Len(s) :
                     /\ StartsWithAt(s, j - Len(ContainingTheLetter), ContainingTheLetter)
                     /\ s[j] \in LowerLetters
                     /\ (j = Len(s) \/ s[j + 1] \notin LowerAlnum \cup {"_"})}}

\* C17: a query with "containing the letter c" is interpreted with
\* contains_character = c, lower-cased, if and only if what follows
\* "containing the letter " is exactly one letter: so it is for every letter,
\* and no character is derived from a digit, an underscore or the first letter
\* of a longer word.
C17_ContainingTheLetter ==
    \A c \in Callers :
        (/\ InterpretDone(c)
         /\ includes(Folded(c), ContainingTheLetter)
         /\ ~includes(Folded(c), FirstVowel))
            => IF SingleLettersAfter(Folded(c)) # {}
               THEN /\ ~res[c].result.err
                    /\ Has(FilterOf(c), "contains_character")
                    /\ FilterOf(c)["contains_character"] \in
                           {<<l>> : l \in SingleLettersAfter(Folded(c))}
               ELSE res[c].result.err \/ ~Has(FilterOf(c), "contains_character")

\* C18: every query that holds the text "first vowel", in any letter case, is
\* interpreted with contains_character = 'a' and so is never Unparseable.
C18_FirstVowel ==
    \A c \in Callers :
        (InterpretDone(c) /\ includes(Folded(c), FirstVowel))
            => /\ ~res[c].result.err
               /\ Has(FilterOf(c), "contains_character")
               /\ FilterOf(c)["contains_character"] = <<"a">>

\* One of the patterns of the interpreter occurs in s.
RecognizedPattern(s) ==
    \/ includes(s, SingleWord)
    \/ includes(s, Palindrome) \/ includes(s, Palindromic)
    \/ NumbersAfter(s, LongerThan) # {}
    \/ NumbersAfter(s, ShorterThan) # {}
    \/ SingleLettersAfter(s) # {}
    \/ includes(s, FirstVowel)

\* C19: a query is answered with Unparseable exactly when none of the
\* recognized patterns occurs in it ("tell me a joke"); when at least one
\* occurs the answer is not Unparseable.
C19_UnparseableIffNoPattern ==
    \A c \in Callers :
        InterpretDone(c) => (Unparseable(res[c].result) <=> ~RecognizedPattern(Folded(c)))

\* C20: a query with both "longer than N" and "shorter than M", M >= 1 and
\* N + 1 > M - 1, is answered with ConflictingFilter and no filter, also for
\* M = 1 where max_length would be 0.
C20_ConflictingLengths ==
    \A c \in Callers :
        (/\ InterpretDone(c)
         /\ \E n \in NumbersAfter(Folded(c), LongerThan), m \in NumbersAfter(Folded(c), ShorterThan) :
               m >= 1 /\ n + 1 > m - 1)
            => ConflictingFilter(res[c].result)

\* Caller c holds the response to a natural language query.
NLQueryDone(c) ==
    pc[c] = "done" /\ req[c].op = "NLQUERY" /\ Truthy(req[c].query, "query")

\* What the interpreter of the service returns or throws for c's query.
Interpreted(c) ==
    IF req[c].parser = "parseNaturalLanguage"
    THEN parseNaturalLanguage(req[c].query["query"])
    ELSE parseNaturalLanguageQuery(req[c].query["query"])

\* C21: a natural language query reports Unparseable (400) when no pattern
\* matched, ConflictingFilter (422) when the derived bounds contradict, and an
\* internal failure (500) only when storage fails; a ConflictingFilter of the
\* interpreter is never reported as Unparseable or as an internal failure.
C21_OutcomesDistinguished ==
    \A c \in Callers :
        NLQueryDone(c)
            => /\ Unparseable(Interpreted(c)) => res[c].status = 400
               /\ ConflictingFilter(Interpreted(c)) => res[c].status = 422
               /\ res[c].status # 500

\* Record r satisfies every field of the derived filter f.
SatisfiesDerived(r, f) ==
    /\ Has(f, "is_palindrome") => r.properties.is_palindrome = f["is_palindrome"]
    /\ Has(f, "min_length") => r.properties.length >= f["min_length"]
    /\ Has(f, "max_length") => r.properties.length <= f["max_length"]
    /\ Has(f, "word_count") => r.properties.word_count = f["word_count"]
    /\ Has(f, "contains_character") => ContainsIgnoringCase(r.value, f["contains_character"][1])

\* Stored row r in the shape of a record (value and properties) for the
\* service caller c talks to.
RecordOf(c, r) == IF req[c].parser = "parseNaturalLanguage" THEN formatResponse(r) ELSE r

\* C22: a natural language query returns the records the structured query
\* with the derived filter returns: every derived field (is_palindrome,
\* min_length, max_length, word_count, contains_character, here a letter) is
\* applied to the store and none is dropped.
C22_DerivedFilterApplied ==
    \A c \in Callers :
        (/\ NLQueryDone(c)
         /\ res[c].status = 200
         /\ Has(res[c].body.interpreted_query.parsed_filters, "contains_character")
               => res[c].body.interpreted_query.parsed_filters["contains_character"][1]
                     \in LowerLetters)
            => LET f == NormalFilter(req[c].parser, res[c].body.interpreted_query.parsed_filters) IN
               /\ Len(res[c].body.data) = Cardinality(ReturnedValues(res[c]))
               /\ \A i \in DOMAIN res[c].body.data : SatisfiesDerived(res[c].body.data[i], f)
               /\ \A r \in strings :
                     (\E i \in DOMAIN res[c].body.data : res[c].body.data[i].value = r.value)
                        <=> SatisfiesDerived(RecordOf(c, r), f)

\* The path of the natural language endpoint as the router sees it, and the
\* handler registered for it.
NaturalLanguagePath(router) ==
    IF router = "StringController" THEN <<"strings", "filter-by-natural-language">>
    ELSE <<"filter-by-natural-language">>

NaturalLanguageHandler(router) ==
    IF router = "StringController" THEN "StringController.filterByNaturalLanguage"
    ELSE "router.get('/filter-by-natural-language')"

\* C23: a GET request to /strings/filter-by-natural-language is dispatched to
\* the natural language handler, not to the retrieve-by-value handler, in the
\* order in which the routes are registered.
C23_NaturalLanguageRouteReached ==
    \A c \in Callers :
        (/\ pc[c] = "done"
         /\ req[c].op = "ROUTE"
         /\ req[c].method = "GET"
         /\ req[c].path = NaturalLanguagePath(req[c].router))
            => res[c].handler = NaturalLanguageHandler(req[c].router)

\* Caller c holds what an analyzer returned for a string.
AnalysisDone(c) ==
    /\ pc[c] = "done"
    /\ req[c].op \in {"analyze", "StringService.analyzeString"}
    /\ IsString(req[c].value)

Analysed(c) == req[c].value.s

\* The properties in the result, whichever analyzer computed them.
PropertiesOf(c) ==
    IF req[c].op = "analyze" THEN res[c].returned.properties ELSE res[c].returned

\* The sum of the counts of a frequency map.
RECURSIVE SumOfCounts(_)
SumOfCounts(m) ==
    IF DOMAIN m = {} THEN 0
    ELSE LET k == CHOOSE k \in DOMAIN m : TRUE IN
         m[k] + SumOfCounts([x \in DOMAIN m \ {k} |-> m[x]])

\* C24: length is the number of code points of the value: a character
\* outside the Basic Multilingual Plane adds 1, so length equals the sum of
\* the counts in character_frequency_map.
C24_LengthCountsCodePoints ==
    \A c \in Callers :
        AnalysisDone(c)
            => /\ PropertiesOf(c).length = Len(Analysed(c))
               /\ PropertiesOf(c).length = SumOfCounts(PropertiesOf(c).character_frequency_map)

\* The value lower-cased, every character that is no ASCII letter or digit
\* removed.
LettersAndDigits(s) ==
    SelectSeq([i \in 1..Len(s) |-> LowerOf(s[i])], LAMBDA ch : ch \in LowerLetters \cup Digits)

\* C25: is_palindrome is true exactly when the value, lower-cased and with
\* every character other than an ASCII letter or digit removed, equals its
\* reverse; an empty normalized form is a palindrome, and so is
\* "A man, a plan, a canal: Panama".
C25_PalindromeNormalized ==
    \A c \in Callers :
        AnalysisDone(c)
            => /\ PropertiesOf(c).is_palindrome
                     <=> \A i \in 1..Len(LettersAndDigits(Analysed(c))) :
                            LettersAndDigits(Analysed(c))[i] =
                               LettersAndDigits(Analysed(c))[Len(LettersAndDigits(Analysed(c))) + 1 - i]
               /\ LettersAndDigits(Analysed(c)) = <<>> => PropertiesOf(c).is_palindrome
               /\ Analysed(c) = Panama => PropertiesOf(c).is_palindrome

WordStarts(s) ==
    {i \in 1..Len(s) : s[i] \notin {" ", "\t"} /\ (i = 1 \/ s[i - 1] \in {" ", "\t"})}

\* C27: word_count is the number of maximal runs of non-whitespace
\* characters: leading, trailing and repeated whitespace add nothing, and the
\* empty string and every whitespace-only string give 0.
C27_WordCount ==
    \A c \in Callers :
        AnalysisDone(c) => PropertiesOf(c).word_count = Cardinality(WordStarts(Analysed(c)))

\* The analyzers have returned 2 for a value with leading, repeated and
\* trailing whitespace and 0 for a whitespace-only value.
C27_Witness ==
    /\ pc["c1"] = "done" /\ req["c1"].op = "analyze"
    /\ req["c1"].value = Str(<<" ", "a", " ", "\t", "b", " ">>)
    /\ res["c1"].returned.properties.word_count = 2
    /\ pc["c2"] = "done" /\ req["c2"].op = "StringService.analyzeString"
    /\ req["c2"].value = Str(<<" ", " ">>)
    /\ res["c2"].returned.word_count = 0

\* Caller c holds what the exported analyzeString returned for a string.
Analyzed(c) ==
    /\ pc[c] = "done"
    /\ req[c].op = "analyze"
    /\ IsString(req[c].value)

C29_CreateSurvivesDelete ==
    \A c \in Callers :
        pc[c] = "done" /\ req[c].op = "POST" /\ Has(req[c].body, "value") /\ IsString(req[c].body.value)
            => ~(res[c].status = 500 /\ res[c].logged = "Cannot read properties of undefined")

\* C30: every filter that a parser returns satisfies the validation rules:
\* min_length and max_length are non-negative integers with
\* min_length <= max_length when both are present, word_count is a
\* non-negative integer and contains_character is exactly one character; this
\* holds for every query, "shorter than 0" included.
C30_ReturnedFilterValid ==
    \A c \in Callers :
        (InterpretDone(c) /\ ~res[c].result.err)
            => LET f == FilterOf(c) IN
               /\ \A n \in NumberFields \cap DOMAIN f : f[n] \in Nat
               /\ Has(f, "min_length") /\ Has(f, "max_length") => f["min_length"] <= f["max_length"]
               /\ Has(f, "contains_character") => Len(f["contains_character"]) = 1

====
